---- MODULE Spec2Model ----
(***************************************************************************)
(* Ride-hailing backend (src/main.py): the rides_v3 table, the Redis geo   *)
(* index "drivers", the websocket ConnectionManager and the request        *)
(* handlers.  Every handler is a coroutine: it runs atomically between two *)
(* awaits, and every await (a database statement, a Redis command, a       *)
(* websocket send) is a point where other handlers may run.                *)
(***************************************************************************)
EXTENDS Integers, Sequences, FiniteSets, TLC

(* ---------------------------- bounds ----------------------------------- *)
\* handler slots: how many request handlers may be in flight at once
MaxCalls == 2
\* HTTP requests served in one behaviour
MaxOps == 4
\* rows the rides_v3 table may hold
MaxRides == 2
\* driver ids known to the clients
MaxDrivers == 1
\* websocket objects that may ever connect
MaxConns == 2

Calls == 1 .. MaxCalls
Drivers == 1 .. MaxDrivers
Sockets == 1 .. MaxConns
\* the ids a client may put in the path of an accept: the drivers' and one
\* that is no driver's
PathIds == 1 .. (MaxDrivers + 1)
\* ride ids a client may name: the ids SERIAL can hand out, whether or not
\* the row exists yet
RideIds == 1 .. MaxRides

(* ------------------------- program constants --------------------------- *)
\* SQL NULL / Python None for the integer-valued columns and fields
NULL == 0 - 1
\* radius=5000, unit="km" of the geosearch, in metres
SearchRadius == 5000000
\* fare = round(50 + dist_km * 12, 2), kept in cents
BaseFare == 5000
PerKm == 12

\* Places.  0 is the dashboard's pickup (12.9716, 77.5946), 1 is the mock
\* destination (13.0, 77.6), 2 is a place on another continent
\* (60.0, -100.0).  Clients report and request from 0 and 2.
Points == {0, 2}
DropPoint == 1
\* the driver and the place the dashboard seeds before it requests a ride
SeedDriver == CHOOSE d \in Drivers : \A e \in Drivers : d <= e
SeedPoint == 0
\* the rider id the dashboard sends
RiderId == 99

\* great-circle distance in metres between two of the points
GeoDist(p, q) ==
    IF p = q THEN 0
    ELSE IF {p, q} = {0, 1} THEN 3212
    ELSE IF {p, q} = {1, 2} THEN 11895010
    ELSE 11898155

\* calculate_distance(lat1, lon1, drop_lat, drop_long), in metres
calculate_distance(p, q) ==
    IF p = NULL THEN 0 ELSE GeoDist(p, q)

\* round(50 + (dist_km * 12), 2) in cents: 5000 + 1.2 * metres, rounded to
\* the nearest cent (12 * metres is even, so no tie ever arises)
ComputeFare(dist) == (BaseFare * 10 + PerKm * dist + 5) \div 10

(* --------------------------- rides_v3 ---------------------------------- *)
\* one row of rides_v3 as INSERT makes it: status 'REQUESTED', fare 0,
\* payment_status from the column default, start_time and end_time NULL
\* (created_at, which no handler reads or writes, is left out)
NewRide(rider, driver, pickup) ==
    [rider_id |-> rider, driver_id |-> driver, pickup |-> pickup,
     status |-> "REQUESTED", fare |-> 0,
     start_time |-> NULL, end_time |-> NULL, payment_status |-> "PENDING"]

\* SELECT ... WHERE id=$1 finds a row
Exists(tbl, id) == id \in 1 .. Len(tbl)

\* an UPDATE whose WHERE clause has lost its "AND status=..." test
MatchesAnyStatus(tbl, id, guard) ==
    IF Exists(tbl, id) THEN 1 ELSE 0

\* a start whose guard also lets a trip already in progress start again
MatchesRestart(tbl, id, guard) ==
    IF /\ Exists(tbl, id)
       /\ \/ guard = "any"
          \/ tbl[id].status = guard
          \/ guard = "ACCEPTED" /\ tbl[id].status = "IN_PROGRESS"
    THEN 1 ELSE 0

\* the rows "UPDATE rides_v3 SET ... WHERE id=$1 AND status=<guard>" matches
\* (guard "any" stands for a WHERE clause that names the id only)
Matches(tbl, id, guard) ==
    IF Exists(tbl, id) /\ (guard = "any" \/ tbl[id].status = guard)
    THEN 1 ELSE 0

\* an UPDATE whose WHERE clause names no id: every row becomes new
UpdateAllRows(tbl, id, guard, new) ==
    IF Matches(tbl, id, guard) = 1 THEN [r \in DOMAIN tbl |-> new] ELSE tbl

\* an UPDATE that also clears the row's driver_id
UpdateUnassign(tbl, id, guard, new) ==
    IF Matches(tbl, id, guard) = 1
    THEN [tbl EXCEPT ![id] = [new EXCEPT !.driver_id = NULL]]
    ELSE tbl

\* the table after the UPDATE: row id becomes new when the WHERE matched
Update(tbl, id, guard, new) ==
    IF Matches(tbl, id, guard) = 1 THEN [tbl EXCEPT ![id] = new] ELSE tbl

\* the decimal digits of n contain a 0: what '"0" in result' tests on the
\* command tag "UPDATE n" that conn.execute returns
RECURSIVE HasZeroDigit(_)
HasZeroDigit(n) ==
    IF n < 10 THEN n = 0
    ELSE (n % 10 = 0) \/ HasZeroDigit(n \div 10)

(* ---------------------------- geo index -------------------------------- *)
\* a search that takes the nearest driver however far away it is
NearestAnywhere(g, p) ==
    LET known == {d \in DOMAIN g : g[d] # NULL}
    IN {d \in known : \A e \in known : GeoDist(g[d], p) <= GeoDist(g[e], p)}

\* redis.geosearch(name="drivers", ..., radius=5000, unit="km", count=1,
\* sort="ASC"): the drivers within the radius that no other is nearer than;
\* the reply holds one of them, or is empty when the set is empty
Nearest(g, p) ==
    LET inRange == {d \in DOMAIN g :
                      g[d] # NULL /\ GeoDist(g[d], p) <= SearchRadius}
    IN {d \in inRange :
          \A e \in inRange : GeoDist(g[d], p) <= GeoDist(g[e], p)}

(* ------------------------------ state ---------------------------------- *)
VARIABLES
    rides,        \* rides_v3: sequence of rows, the row's id is its index
    hist,         \* per ride id: what has been done to the row so far
    geo,          \* Redis key "drivers": driver id -> point, or NULL; the
                  \* key outlives the process, which starts with whatever
                  \* it holds
    conns,        \* manager.active_connections
    open,         \* per websocket: is the client's end still open
    joined,       \* per websocket: broadcasts begun before it connected
    inbox,        \* per websocket: the messages the client has received
    call,         \* per handler slot: the coroutine's local state
    resp,         \* the HTTP response the last step sent, if it sent one
    nops,         \* requests received so far
    seq,          \* number of broadcast() calls made so far
    overlapped    \* has a broadcast begun while another was in its loop

vars == <<rides, hist, geo, conns, open, joined, inbox, call, resp, nops,
          seq, overlapped>>

NoMsg == [type |-> "none", ride_id |-> NULL, status |-> "none",
          driver_id |-> NULL, fare |-> NULL, point |-> NULL, seq |-> 0]

\* ver: UPDATE statements applied to the row; accepted: accept requests
\* answered "accepted"; starts: writes of start_time; ends: writes of fare
\* and end_time; fare, seen: the fare the last answered end request
\* returned and the row's ver at that request's last statement
NoHist == [ver |-> 0, accepted |-> 0, starts |-> 0, ends |-> 0,
           fare |-> NULL, seen |-> 0]

\* op: the handler; pc: the await it is suspended at; id: the path id;
\* ride_id: the ride the request names; point, pay: the other inputs;
\* row_pickup: the pickup end_trip's SELECT read (the status and fare it
\* read are not used after the test); body, fare: what the handler will
\* return; msg, idx: broadcast's argument and the list iterator's index.
\* The rest is bookkeeping for the response: existed, writes: whether the
\* handler's statement found the row's id and the rows its UPDATE matched;
\* ver: the row's ver after the handler's last statement; prev_fare,
\* prev_seen: the row's hist.fare and hist.seen when the request arrived;
\* failed: a send of the handler's broadcast raised and "except: pass" took it
IdleCall == [op |-> "idle", pc |-> "idle", id |-> NULL, ride_id |-> NULL,
             point |-> NULL, pay |-> "none", row_pickup |-> NULL,
             body |-> "none", fare |-> NULL, msg |-> NoMsg, idx |-> 0,
             existed |-> FALSE, writes |-> 0, ver |-> 0,
             prev_fare |-> NULL, prev_seen |-> 0, failed |-> FALSE]

NoResp == [op |-> "none", id |-> NULL, ride_id |-> NULL, point |-> NULL,
           code |-> 0, body |-> "none", fare |-> NULL, existed |-> FALSE,
           writes |-> 0, ver |-> 0, prev_fare |-> NULL, prev_seen |-> 0]

Init ==
    /\ rides = << >>
    /\ hist = [r \in RideIds |-> NoHist]
    /\ geo \in [Drivers -> Points \cup {NULL}]
    /\ conns = << >>
    /\ open = [w \in Sockets |-> TRUE]
    /\ joined = [w \in Sockets |-> 0]
    /\ inbox = [w \in Sockets |-> << >>]
    /\ call = [c \in Calls |-> IdleCall]
    /\ resp = NoResp
    /\ nops = 0
    /\ seq = 0
    /\ overlapped = FALSE

Range(s) == {s[i] : i \in 1 .. Len(s)}

\* the response handler k sends: status code and body, with the bookkeeping
\* of the request it answers
Response(k, code, body, fare) ==
    [op |-> k.op, id |-> k.id, ride_id |-> k.ride_id, point |-> k.point,
     code |-> code, body |-> body, fare |-> fare,
     existed |-> k.existed, writes |-> k.writes, ver |-> k.ver,
     prev_fare |-> k.prev_fare, prev_seen |-> k.prev_seen]

\* a request arrives while fewer than MaxCalls handlers are suspended: its
\* handler starts in the first free slot and runs up to its first await
Arrives(c) ==
    /\ call[c].op = "idle"
    /\ \A d \in Calls : d < c => call[d].op # "idle"
    /\ nops < MaxOps
    /\ nops' = nops + 1

\* the local state of a handler that has just started
Started(op, id, ride_id, point, pay) ==
    [IdleCall EXCEPT !.op = op, !.id = id, !.ride_id = ride_id,
                     !.point = point, !.pay = pay]

\* NOW() in a statement on row id.  The rows' timestamps are only ever
\* compared within a row, so time is counted per row: the time of a
\* statement is its ordinal among the statements applied to the row.
Now(id) == hist[id].ver + 1

\* the row histories after an UPDATE on row id that matched n rows; what is
\* "starts" or "ends" when the statement wrote start_time or fare and
\* end_time
Bump(id, n, what) ==
    IF n = 1
    THEN [hist EXCEPT ![id].ver = @ + 1,
                      ![id].starts = IF what = "starts" THEN @ + 1 ELSE @,
                      ![id].ends = IF what = "ends" THEN @ + 1 ELSE @]
    ELSE hist

\* the row's ver in histories h, 0 for an id beyond the table's capacity
Ver(h, id) == IF id \in DOMAIN h THEN h[id].ver ELSE 0

\* the row histories h once handler k has answered 200: an "accepted", and
\* the fare of an "ended", are noted with the row
Answered(h, k, fare) ==
    IF k.ride_id \notin DOMAIN h THEN h
    ELSE IF k.op = "accept_ride"
    THEN [h EXCEPT ![k.ride_id].accepted = @ + 1]
    ELSE IF k.op = "end_trip"
    THEN [h EXCEPT ![k.ride_id].fare = fare, ![k.ride_id].seen = k.ver]
    ELSE h

RideUpdate(ride_id, status) ==
    [NoMsg EXCEPT !.type = "RIDE_UPDATE", !.ride_id = ride_id,
                  !.status = status]

\* The handler in slot c, with local state k and the row histories h its
\* statement left, has built msg and calls "await manager.broadcast(msg)",
\* then returns body.  With no connection in the list the loop body never
\* runs and the handler returns in the same step; otherwise the handler is
\* left at the head of the loop.  (Giving the database connection back to
\* the pool touches nothing the handlers share and is not a step.)
Broadcast(c, k, h, body, fare, msg) ==
    /\ seq' = seq + 1
    /\ overlapped' = (overlapped \/ \E d \in Calls : call[d].pc = "send")
    /\ IF conns = << >>
       THEN /\ resp' = Response(k, 200, body, fare)
            /\ hist' = Answered(h, k, fare)
            /\ call' = [call EXCEPT ![c] = IdleCall]
       ELSE /\ resp' = NoResp
            /\ hist' = h
            /\ call' = [call EXCEPT ![c] =
                          [k EXCEPT !.pc = "send", !.idx = 0, !.body = body,
                                    !.fare = fare,
                                    !.msg = [msg EXCEPT !.seq = seq + 1]]]

\* the handler raises HTTPException, or returns without a broadcast
Reply(c, k, code, body, fare) ==
    /\ resp' = Response(k, code, body, fare)
    /\ call' = [call EXCEPT ![c] = IdleCall]
    /\ UNCHANGED <<seq, overlapped>>

\* the handler is suspended in slot c with local state k
Suspend(c, k) ==
    /\ resp' = NoResp
    /\ call' = [call EXCEPT ![c] = k]
    /\ UNCHANGED <<seq, overlapped>>

(* ------------------ API 1: POST /v1/drivers/{id}/location -------------- *)
\* redis.geoadd("drivers", [long, lat, str(driver_id)]), then the broadcast
\* of DRIVER_MOVED
UpdateLocationAt(c, d, p) ==
    /\ Arrives(c)
    /\ geo' = [geo EXCEPT ![d] = p]
    /\ Broadcast(c, Started("update_location", d, NULL, p, "none"), hist,
                 "ok", NULL,
                 [NoMsg EXCEPT !.type = "DRIVER_MOVED", !.driver_id = d,
                               !.point = p])
    /\ UNCHANGED <<rides, conns, open, joined, inbox>>

UpdateLocation(c) ==
    \E d \in Drivers, p \in Points : UpdateLocationAt(c, d, p)

\* the report the dashboard's requestRide() sends
SeedLocation(c) == UpdateLocationAt(c, SeedDriver, SeedPoint)

(* ------------------------ API 2: POST /v1/rides ------------------------ *)
\* nearest = redis.geosearch(...); "if not nearest: raise 404";
\* driver_id = int(nearest[0])
CreateRide(c) ==
    /\ Arrives(c)
    /\ Len(rides) + Cardinality({d \in Calls : call[d].op = "create_ride"})
         < MaxRides
    /\ \E p \in Points :
         LET k == Started("create_ride", NULL, NULL, p, "none")
         IN IF Nearest(geo, p) = {}
            THEN Reply(c, k, 404, "No drivers found nearby", NULL)
            ELSE \E d \in Nearest(geo, p) :
                   Suspend(c, [k EXCEPT !.pc = "insert", !.id = d])
    /\ UNCHANGED <<rides, hist, geo, conns, open, joined, inbox>>

\* INSERT INTO rides_v3 ... VALUES ($1, $2, $3, $4, 'REQUESTED', 0)
\* RETURNING id, then the broadcast of RIDE_UPDATE
CreateRideInsert(c) ==
    LET id == Len(rides) + 1
    IN /\ call[c].op = "create_ride" /\ call[c].pc = "insert"
       /\ rides' = Append(rides, NewRide(RiderId, call[c].id, call[c].point))
       /\ Broadcast(c, [call[c] EXCEPT !.ride_id = id, !.writes = 1], hist,
                    "REQUESTED", NULL,
                    [RideUpdate(id, "REQUESTED")
                       EXCEPT !.driver_id = call[c].id])
       /\ UNCHANGED <<geo, conns, open, joined, inbox, nops>>

\* an accept that only the ride's assigned driver may make: the UPDATE has
\* "AND driver_id=$2" with the path id
AcceptRideAssigned(c) ==
    /\ Arrives(c)
    /\ \E d \in PathIds, id \in RideIds :
         LET n == IF Exists(rides, id) /\ rides[id].driver_id = d
                  THEN Matches(rides, id, "REQUESTED") ELSE 0
             h == Bump(id, n, "status")
             k == [Started("accept_ride", d, id, NULL, "none")
                     EXCEPT !.existed = Exists(rides, id), !.writes = n,
                            !.ver = Ver(h, id)]
         IN /\ rides' = IF n = 1
                        THEN [rides EXCEPT ![id].status = "ACCEPTED"]
                        ELSE rides
            /\ IF HasZeroDigit(n)
               THEN /\ Reply(c, k, 409, "Ride already taken or cancelled",
                             NULL)
                    /\ hist' = h
               ELSE Broadcast(c, k, h, "accepted", NULL,
                              RideUpdate(id, "ACCEPTED"))
    /\ UNCHANGED <<geo, conns, open, joined, inbox>>

(* ----------------- API 4: POST /v1/drivers/{id}/accept ----------------- *)
\* UPDATE rides_v3 SET status='ACCEPTED' WHERE id=$1 AND status='REQUESTED';
\* 'if "0" in result: raise HTTPException(status_code=409)'
AcceptRide(c) ==
    /\ Arrives(c)
    /\ \E d \in PathIds, id \in RideIds :
         LET n == Matches(rides, id, "REQUESTED")
             h == Bump(id, n, "status")
             k == [Started("accept_ride", d, id, NULL, "none")
                     EXCEPT !.existed = Exists(rides, id), !.writes = n,
                            !.ver = Ver(h, id)]
         IN /\ rides' = Update(rides, id, "REQUESTED",
                               [rides[id] EXCEPT !.status = "ACCEPTED"])
            /\ IF HasZeroDigit(n)
               THEN /\ Reply(c, k, 409, "Ride already taken or cancelled",
                             NULL)
                    /\ hist' = h
               ELSE Broadcast(c, k, h, "accepted", NULL,
                              RideUpdate(id, "ACCEPTED"))
    /\ UNCHANGED <<geo, conns, open, joined, inbox>>

(* ------------------- API 5: POST /v1/trips/{id}/start ------------------ *)
\* UPDATE rides_v3 SET status='IN_PROGRESS', start_time=NOW()
\* WHERE id=$1 AND status='ACCEPTED'; the command tag is not looked at
StartTrip(c) ==
    /\ Arrives(c)
    /\ \E id \in RideIds :
         LET n == Matches(rides, id, "ACCEPTED")
             h == Bump(id, n, "starts")
             k == [Started("start_trip", id, id, NULL, "none")
                     EXCEPT !.existed = Exists(rides, id), !.writes = n,
                            !.ver = Ver(h, id)]
         IN /\ rides' = Update(rides, id, "ACCEPTED",
                               [rides[id] EXCEPT !.status = "IN_PROGRESS",
                                                 !.start_time = Now(id)])
            /\ Broadcast(c, k, h, "started", NULL,
                         RideUpdate(id, "IN_PROGRESS"))
    /\ UNCHANGED <<geo, conns, open, joined, inbox>>

(* ------------------- API 6: POST /v1/trips/{id}/pause ------------------ *)
\* UPDATE rides_v3 SET status='PAUSED' WHERE id=$1
PauseTrip(c) ==
    /\ Arrives(c)
    /\ \E id \in RideIds :
         LET n == Matches(rides, id, "any")
             h == Bump(id, n, "status")
             k == [Started("pause_trip", id, id, NULL, "none")
                     EXCEPT !.existed = Exists(rides, id), !.writes = n,
                            !.ver = Ver(h, id)]
         IN /\ rides' = Update(rides, id, "any",
                               [rides[id] EXCEPT !.status = "PAUSED"])
            /\ Broadcast(c, k, h, "paused", NULL, RideUpdate(id, "PAUSED"))
    /\ UNCHANGED <<geo, conns, open, joined, inbox>>

(* -------------------- API 7: POST /v1/trips/{id}/end ------------------- *)
\* an end_trip without its idempotency test
NeverCompleted(row) == FALSE

\* "if ride['status'] == 'COMPLETED'"
AlreadyCompleted(row) == row.status = "COMPLETED"

\* ride = SELECT pickup_lat, pickup_long, status, fare ... WHERE id=$1;
\* "if not ride: raise HTTPException(404)"; "if ride['status'] ==
\* 'COMPLETED': return {"status": "ended", "fare": ride['fare']}"
EndTrip(c) ==
    /\ Arrives(c)
    /\ \E id \in RideIds :
         LET k == [Started("end_trip", id, id, NULL, "none")
                     EXCEPT !.existed = Exists(rides, id),
                            !.ver = Ver(hist, id),
                            !.prev_fare = hist[id].fare,
                            !.prev_seen = hist[id].seen]
         IN IF ~Exists(rides, id)
            THEN /\ Reply(c, k, 404, "Not Found", NULL)
                 /\ UNCHANGED hist
            ELSE IF AlreadyCompleted(rides[id])
            THEN /\ Reply(c, k, 200, "ended", rides[id].fare)
                 /\ hist' = Answered(hist, k, rides[id].fare)
            ELSE /\ Suspend(c, [k EXCEPT !.pc = "update",
                                         !.row_pickup = rides[id].pickup])
                 /\ UNCHANGED hist
    /\ UNCHANGED <<rides, geo, conns, open, joined, inbox>>

\* dist_km = calculate_distance(pickup, drop); fare = round(50 + dist_km*12,
\* 2); UPDATE rides_v3 SET status='COMPLETED', end_time=NOW(), fare=$2
\* WHERE id=$1, then the broadcast of RIDE_UPDATE
EndTripUpdate(c) ==
    LET id == call[c].ride_id
        n == Matches(rides, id, "any")
        h == Bump(id, n, "ends")
        fare == ComputeFare(calculate_distance(call[c].row_pickup, DropPoint))
    IN /\ call[c].op = "end_trip" /\ call[c].pc = "update"
       /\ rides' = Update(rides, id, "any",
                          [rides[id] EXCEPT !.status = "COMPLETED",
                                            !.end_time = Now(id),
                                            !.fare = fare])
       /\ Broadcast(c, [call[c] EXCEPT !.writes = n, !.ver = Ver(h, id)], h,
                    "ended", fare,
                    [RideUpdate(id, "COMPLETED") EXCEPT !.fare = fare])
       /\ UNCHANGED <<geo, conns, open, joined, inbox, nops>>

(* ----------------------- API 8: POST /v1/payments ---------------------- *)
\* success = random.choice([True, True, True, False]);
\* status = "PAID" if success else "FAILED";
\* UPDATE rides_v3 SET payment_status=$2 WHERE id=$1
ProcessPayment(c) ==
    /\ Arrives(c)
    /\ \E id \in RideIds, success \in BOOLEAN :
         LET status == IF success THEN "PAID" ELSE "FAILED"
             n == Matches(rides, id, "any")
             h == Bump(id, n, "payment_status")
             k == [Started("process_payment", NULL, id, NULL, status)
                     EXCEPT !.existed = Exists(rides, id), !.writes = n,
                            !.ver = Ver(h, id)]
         IN /\ rides' = Update(rides, id, "any",
                               [rides[id] EXCEPT !.payment_status = status])
            /\ Broadcast(c, k, h, status, NULL, RideUpdate(id, status))
    /\ UNCHANGED <<geo, conns, open, joined, inbox>>

(* ------------------------- ConnectionManager --------------------------- *)
\* the list without the first occurrence of w (list.remove)
RECURSIVE Remove(_, _)
Remove(s, w) ==
    IF s = << >> THEN << >>
    ELSE IF Head(s) = w THEN Tail(s)
    ELSE <<Head(s)>> \o Remove(Tail(s), w)

\* websocket_endpoint: manager.connect(websocket) appends the socket once
\* the handshake is done.  Sockets are numbered in the order they connect.
Connect(w) ==
    /\ open[w] /\ w \notin Range(conns)
    /\ \A v \in Sockets : v < w => (v \in Range(conns) \/ ~open[v])
    /\ conns' = Append(conns, w)
    /\ joined' = [joined EXCEPT ![w] = seq]
    /\ resp' = NoResp
    /\ UNCHANGED <<rides, hist, geo, open, inbox, call, nops, seq,
                   overlapped>>

\* the client closes its end: from now on send_json on the socket raises
\* and receive_text raises WebSocketDisconnect; what the client had
\* received is gone with it
Close(w) ==
    /\ open[w] /\ w \in Range(conns)
    /\ open' = [open EXCEPT ![w] = FALSE]
    /\ inbox' = [inbox EXCEPT ![w] = << >>]
    /\ joined' = [joined EXCEPT ![w] = 0]
    /\ resp' = NoResp
    /\ UNCHANGED <<rides, hist, geo, conns, call, nops, seq, overlapped>>

\* websocket_endpoint: "except WebSocketDisconnect:
\* manager.disconnect(websocket)"
Disconnect(w) ==
    /\ ~open[w] /\ w \in Range(conns)
    /\ conns' = Remove(conns, w)
    /\ resp' = NoResp
    /\ UNCHANGED <<rides, hist, geo, open, joined, inbox, call, nops, seq,
                   overlapped>>

\* one turn of "for connection in self.active_connections": the list
\* iterator yields the element at its index in the list as it is now;
\* "await connection.send_json(message)" delivers, or raises on a closed
\* socket and the bare except swallows it
BroadcastSend(c) ==
    /\ call[c].pc = "send"
    /\ call[c].idx < Len(conns)
    /\ LET w == conns[call[c].idx + 1]
       IN /\ inbox' = IF open[w]
                      THEN [inbox EXCEPT ![w] = Append(@, call[c].msg)]
                      ELSE inbox
          /\ call' = [call EXCEPT ![c].idx = @ + 1,
                                  ![c].failed = (@ \/ ~open[w])]
    /\ resp' = NoResp
    /\ UNCHANGED <<rides, hist, geo, conns, open, joined, nops, seq,
                   overlapped>>

\* the iterator is exhausted when the handler resumes: broadcast returns
\* and the handler returns its body with status 200
BroadcastReturn(c) ==
    /\ call[c].pc = "send"
    /\ call[c].idx >= Len(conns)
    /\ Reply(c, call[c], 200, call[c].body, call[c].fare)
    /\ hist' = Answered(hist, call[c], call[c].fare)
    /\ UNCHANGED <<rides, geo, conns, open, joined, inbox, nops>>

(* ---------------------------- the system ------------------------------- *)
Next ==
    \/ \E c \in Calls : UpdateLocation(c)
    \/ \E c \in Calls : CreateRide(c)
    \/ \E c \in Calls : CreateRideInsert(c)
    \/ \E c \in Calls : AcceptRide(c)
    \/ \E c \in Calls : StartTrip(c)
    \/ \E c \in Calls : PauseTrip(c)
    \/ \E c \in Calls : EndTrip(c)
    \/ \E c \in Calls : EndTripUpdate(c)
    \/ \E c \in Calls : ProcessPayment(c)
    \/ \E c \in Calls : BroadcastSend(c)
    \/ \E c \in Calls : BroadcastReturn(c)
    \/ \E w \in Sockets : Connect(w)
    \/ \E w \in Sockets : Close(w)
    \/ \E w \in Sockets : Disconnect(w)

Spec == Init /\ [][Next]_vars

\* the request handlers alone: no websocket client ever connects, so every
\* broadcast finds active_connections empty
NextRides ==
    \/ \E c \in Calls : UpdateLocation(c)
    \/ \E c \in Calls : CreateRide(c)
    \/ \E c \in Calls : CreateRideInsert(c)
    \/ \E c \in Calls : AcceptRide(c)
    \/ \E c \in Calls : StartTrip(c)
    \/ \E c \in Calls : PauseTrip(c)
    \/ \E c \in Calls : EndTrip(c)
    \/ \E c \in Calls : EndTripUpdate(c)
    \/ \E c \in Calls : ProcessPayment(c)

SpecRides == Init /\ [][NextRides]_vars

\* the event bus alone: websocket clients come and go while the dashboard
\* seeds its driver into an empty index, each report being broadcast as
\* DRIVER_MOVED
InitBus == Init /\ geo = [d \in Drivers |-> NULL]

NextBus ==
    \/ \E c \in Calls : SeedLocation(c)
    \/ \E c \in Calls : BroadcastSend(c)
    \/ \E c \in Calls : BroadcastReturn(c)
    \/ \E w \in Sockets : Connect(w)
    \/ \E w \in Sockets : Close(w)
    \/ \E w \in Sockets : Disconnect(w)

SpecBus == InitBus /\ [][NextBus]_vars

(* ======================= properties of the rides ======================= *)
Lifecycle == {"accept_ride", "start_trip", "pause_trip", "end_trip",
              "process_payment"}

\* C1: however accept requests on one ride interleave, at most one of them
\* is answered "accepted" (status 200, its UPDATE having moved the row from
\* REQUESTED to ACCEPTED); every other one is answered 409 Conflict and
\* has changed no row.
C1_AtMostOneAccept ==
    /\ \A r \in RideIds : hist[r].accepted <= 1
    /\ resp.op = "accept_ride" =>
         \/ resp.code = 409 /\ resp.writes = 0
         \/ /\ resp.code = 200 /\ resp.body = "accepted" /\ resp.writes = 1
            /\ hist[resp.ride_id].accepted = 1

\* a second accept on a ride already accepted has just been answered 409
C1_Witness ==
    /\ resp.op = "accept_ride" /\ resp.code = 409 /\ resp.existed
    /\ hist[resp.ride_id].accepted = 1
    /\ rides[resp.ride_id].status = "ACCEPTED"

\* the edges of the transition table
Edges == {<<"REQUESTED", "ACCEPTED">>, <<"ACCEPTED", "IN_PROGRESS">>,
          <<"IN_PROGRESS", "PAUSED">>, <<"IN_PROGRESS", "COMPLETED">>}

\* C2: every change of a row's stored status is an edge of the transition
\* table, and a row is created in REQUESTED.
C2_TransitionTable ==
    [][\A r \in 1 .. Len(rides') :
         IF r <= Len(rides)
         THEN \/ rides'[r].status = rides[r].status
              \/ <<rides[r].status, rides'[r].status>> \in Edges
         ELSE rides'[r].status = "REQUESTED"]_vars

\* C3: when an end request arrives after an earlier end request on the same
\* ride was answered with a fare, and no other request has written to the
\* row since that earlier request's last statement, the later request is
\* answered 200 with the same fare and writes nothing (neither fare nor
\* end_time).
C3_EndTwice ==
    (/\ resp.op = "end_trip"
     /\ resp.prev_fare # NULL
     /\ resp.ver - resp.writes = resp.prev_seen)
    => /\ resp.code = 200
       /\ resp.fare = resp.prev_fare
       /\ resp.writes = 0
       /\ rides[resp.ride_id].fare = resp.prev_fare

\* a second end in succession has just been answered
C3_Witness ==
    /\ resp.op = "end_trip" /\ resp.code = 200
    /\ resp.prev_fare # NULL /\ resp.prev_fare > 0
    /\ resp.ver - resp.writes = resp.prev_seen
    /\ rides[resp.ride_id].status = "COMPLETED"
    /\ rides[resp.ride_id].end_time = resp.prev_seen

\* C4: the fare of a ride is written to the table at most once, whatever
\* requests follow the ride's completion.
C4_FareWrittenOnce == \A r \in RideIds : hist[r].ends <= 1

\* C5: the test of the row's status and the write of COMPLETED, fare and
\* end_time are one atomic step: an end request that has passed the test
\* and has not written yet still finds the row not COMPLETED.
C5_AtomicComplete ==
    \A c \in Calls :
      (call[c].op = "end_trip" /\ call[c].pc = "update")
      => rides[call[c].ride_id].status # "COMPLETED"

Engaged == {"ACCEPTED", "IN_PROGRESS", "PAUSED"}

\* C6: no two rides with the same driver_id are both accepted (ACCEPTED,
\* IN_PROGRESS or PAUSED).
C6_OneAssignment ==
    \A r1, r2 \in 1 .. Len(rides) :
      (r1 # r2 /\ rides[r1].driver_id = rides[r2].driver_id)
      => ~(rides[r1].status \in Engaged /\ rides[r2].status \in Engaged)

\* some driver of index g is within the search radius of point p
InRadius(g, p) ==
    \E d \in DOMAIN g : g[d] # NULL /\ GeoDist(g[d], p) <= SearchRadius

\* C7: a ride request that arrives when no driver is within the search
\* radius of its pickup is answered 404 and goes no further; the step that
\* answers 404 inserts no row and publishes no event.
C7_NoDriverNoRide ==
    [][/\ \A c \in Calls :
            (call[c].op = "idle" /\ call'[c].op = "create_ride")
            => InRadius(geo, call'[c].point)
       /\ (nops' # nops /\ resp'.op = "create_ride"
             /\ ~InRadius(geo, resp'.point))
            => resp'.code = 404
       /\ (resp'.op = "create_ride" /\ resp'.code = 404)
            => rides' = rides /\ seq' = seq /\ inbox' = inbox]_vars

\* a request has just been refused although the index holds a driver
C7_Witness ==
    /\ resp.op = "create_ride" /\ resp.code = 404
    /\ ~InRadius(geo, resp.point)
    /\ \E d \in Drivers : geo[d] # NULL

\* C8: a start request on an existing ride whose status is not ACCEPTED (its
\* UPDATE matched no row) is answered 409 Conflict.
C8_StartRejected ==
    (resp.op = "start_trip" /\ resp.existed /\ resp.writes = 0)
    => resp.code = 409

\* C9: accept, start, pause, end and pay on a ride id that is not in the
\* table are answered 404 NotFound.
C9_NotFound ==
    (resp.op \in Lifecycle /\ ~resp.existed) => resp.code = 404

\* C13: a pay request on a ride sets that row's payment_status to the
\* oracle's outcome, PAID or FAILED, and changes nothing else: the row's
\* other columns, every other row and the number of rows stay as they were.
C13_PayFrame ==
    [][(nops' # nops /\ resp'.op = "process_payment")
       => /\ resp'.body \in {"PAID", "FAILED"}
          /\ Len(rides') = Len(rides)
          /\ \A r \in 1 .. Len(rides) :
               rides'[r] = IF r = resp'.ride_id
                           THEN [rides[r] EXCEPT
                                   !.payment_status = resp'.body]
                           ELSE rides[r]]_vars

\* a payment on the first of two rides, which is completed, has just failed
C13_Witness ==
    /\ resp.op = "process_payment" /\ resp.writes = 1
    /\ resp.body = "FAILED" /\ Len(rides) = 2 /\ resp.ride_id = 1
    /\ rides[1].status = "COMPLETED" /\ rides[1].fare > 0
    /\ rides[1].payment_status = "FAILED"
    /\ rides[2].payment_status = "PENDING"

\* C14: a row's driver_id is set by the INSERT that creates it, to the
\* driver the search returned, and no later step (accept, start, pause,
\* end, pay, a location report) changes it.
C14_DriverSetOnce ==
    [][/\ Len(rides') >= Len(rides)
       /\ \A r \in 1 .. Len(rides') :
            IF r <= Len(rides)
            THEN rides'[r].driver_id = rides[r].driver_id
            ELSE rides'[r].driver_id \in Drivers]_vars

\* a ride has been completed and paid, its driver has since reported from
\* another place than the pickup, and the ride still names that driver
C14_Witness ==
    \E r \in 1 .. Len(rides) :
      /\ rides[r].status = "COMPLETED"
      /\ rides[r].payment_status # "PENDING"
      /\ rides[r].driver_id \in Drivers
      /\ geo[rides[r].driver_id] # rides[r].pickup

\* C15: whenever a ride is PAUSED and a request can still be served, some
\* request's step sets the ride's status back to IN_PROGRESS.
C15_PausedCanResume ==
    \A r \in RideIds :
      (/\ r <= Len(rides) /\ rides[r].status = "PAUSED"
       /\ nops < MaxOps /\ \E c \in Calls : call[c].op = "idle")
      => ENABLED (NextRides /\ rides'[r].status = "IN_PROGRESS")

\* C16: a row's payment_status is PAID or FAILED only if its status is
\* COMPLETED.
C16_PaidOnlyCompleted ==
    \A r \in 1 .. Len(rides) :
      rides[r].payment_status # "PENDING" => rides[r].status = "COMPLETED"

\* the status a RIDE_UPDATE event carries, by the body its handler returns
EventStatus(body) ==
    IF body = "accepted" THEN "ACCEPTED"
    ELSE IF body = "started" THEN "IN_PROGRESS"
    ELSE IF body = "paused" THEN "PAUSED"
    ELSE "COMPLETED"

\* C18: a RIDE_UPDATE event that accept, start, pause or end publishes
\* belongs to a transition the handler's UPDATE applied: the UPDATE matched
\* the row and the row now holds the status the event carries.
C18_EventsMatchStore ==
    [][(/\ seq' # seq
        /\ resp'.op \in {"accept_ride", "start_trip", "pause_trip",
                         "end_trip"})
       => /\ resp'.writes = 1
          /\ resp'.ride_id <= Len(rides')
          /\ rides'[resp'.ride_id].status = EventStatus(resp'.body)]_vars

\* C19: over the life of a ride accept is answered "accepted" at most once
\* and start_time is written at most once, because no step takes a row back
\* to REQUESTED or to ACCEPTED.
C19_AcceptStartOnce ==
    [][\A r \in 1 .. Len(rides) :
         /\ rides'[r].status = "REQUESTED" => rides[r].status = "REQUESTED"
         /\ rides'[r].status = "ACCEPTED"
              => rides[r].status \in {"REQUESTED", "ACCEPTED"}
         /\ rides'[r].start_time # rides[r].start_time
              => rides[r].start_time = NULL /\ hist[r].starts = 0
         /\ hist'[r].accepted <= 1
         /\ hist'[r].starts <= 1]_vars

\* a second start on a ride that was accepted and started has just been
\* answered, having written nothing
C19_Witness ==
    /\ resp.op = "start_trip" /\ resp.existed /\ resp.writes = 0
    /\ hist[resp.ride_id].accepted = 1
    /\ hist[resp.ride_id].starts = 1
    /\ rides[resp.ride_id].start_time # NULL

\* what an accept of ride id makes of table tbl, and the status code it is
\* answered with
AcceptOutcome(tbl, id) ==
    IF id <= Len(tbl) /\ tbl[id].status = "REQUESTED"
    THEN <<200, [tbl EXCEPT ![id].status = "ACCEPTED"]>>
    ELSE <<409, tbl>>

\* C20: the answer to an accept and the table it leaves are determined by
\* the table and the ride id alone, whatever driver id the path carries.
C20_PathIdIgnored ==
    [][(nops' # nops /\ resp'.op = "accept_ride")
       => <<resp'.code, rides'>> = AcceptOutcome(rides, resp'.ride_id)]_vars

\* an accept whose path carries another id than the ride's driver_id has
\* just been answered "accepted"
C20_Witness ==
    /\ resp.op = "accept_ride" /\ resp.code = 200
    /\ resp.id # rides[resp.ride_id].driver_id
    /\ rides[resp.ride_id].status = "ACCEPTED"

(* ==================== properties of the event bus ====================== *)
Subscribed(w) == w \in Range(conns) /\ open[w]

InFlight == {c \in Calls : call[c].pc = "send"}

\* C10: when no broadcast has begun before the one before it had returned,
\* every subscriber that was registered before the first broadcast and is
\* still open has received the events in publish order, all of them up to
\* the one that may still be in its loop.
C10_AllInOrder ==
    ~overlapped =>
      \A w \in Sockets :
        (Subscribed(w) /\ joined[w] = 0)
        => /\ \A i \in 1 .. Len(inbox[w]) : inbox[w][i].seq = i
           /\ Len(inbox[w]) >= seq - Cardinality(InFlight)

\* C11: whatever way concurrent broadcasts interleave at their awaits, every
\* subscriber receives the events in the order broadcast was called: in
\* every inbox the events' call numbers increase.
C11_PublishOrder ==
    \A w \in Sockets :
      \A i, j \in 1 .. Len(inbox[w]) :
        i < j => inbox[w][i].seq < inbox[w][j].seq

\* the copies of the event numbered n that socket w has received
Copies(w, n) == {i \in 1 .. Len(inbox[w]) : inbox[w][i].seq = n}

\* C12: connects and disconnects during a broadcast do not interfere with
\* it: when the broadcast returns, the publisher is answered 200 and every
\* socket that was registered before the broadcast began, and still is
\* registered and open, has received its event exactly once.
C12_NoInterference ==
    [][\A c \in Calls :
         (call[c].pc = "send" /\ call'[c].pc # "send")
         => /\ resp'.code = 200
            /\ \A w \in Sockets :
                 (Subscribed(w) /\ joined[w] < call[c].msg.seq)
                 => Cardinality(Copies(w, call[c].msg.seq)) = 1]_vars

\* C17: a send that fails on a closed socket is swallowed.  A turn of
\* broadcast's loop never changes the list of connections; a turn whose
\* socket is closed delivers nothing and leaves the handler in the loop;
\* broadcast never raises, the handler answering 200 when it returns; and
\* a broadcast in which a send failed has still sent to every subscriber
\* after the failing one: when it returns, every socket that was registered
\* before it began, and still is registered and open, has its event.
C17_FailureSwallowed ==
    [][\A c \in Calls :
         (call[c].pc = "send" /\ call'[c] # call[c])
         => /\ conns' = conns
            /\ (call[c].idx < Len(conns) /\ ~open[conns[call[c].idx + 1]])
                 => /\ call'[c].pc = "send"
                    /\ inbox' = inbox
                    /\ resp' = NoResp
            /\ call'[c].pc # "send"
                 => /\ resp'.op = call[c].op /\ resp'.code = 200
                    /\ call[c].failed
                         => \A w \in Sockets :
                              (Subscribed(w) /\ joined[w] < call[c].msg.seq)
                              => Copies(w, call[c].msg.seq) # {}]_vars

====
